---- MODULE Spec2Model ----
(***************************************************************************)
(* A model of transcribe.py (faster-whisper-transcriber): the SRT          *)
(* timestamp formatter, the three output writers, the interactive prompt   *)
(* wizard and the pipeline of main().                                      *)
(*                                                                         *)
(* Text is modelled as a sequence of one-character strings, so that        *)
(* formatting, stripping, splitting and reading back are computed and not  *)
(* assumed.  A time in seconds is a record [sec, frac]: the whole seconds   *)
(* and the fraction counted in ticks of 0.1 microsecond, which is finer    *)
(* than the microsecond resolution of datetime.timedelta, so the rounding  *)
(* timedelta performs on a float argument is part of the model.            *)
(***************************************************************************)
EXTENDS Integers, Sequences, FiniteSets, TLC

VARIABLES
    ts_pc,        \* SpecTs: "start" | "one" | "done"
    ts_start,     \* SpecTs: seg.start, in ticks
    ts_end,       \* SpecTs: seg.end, in ticks
    ts_out_start, \* SpecTs: format_srt_timestamp(seg.start), <<>> before the call
    ts_out_end,   \* SpecTs: format_srt_timestamp(seg.end), <<>> before the call
    w_pc,         \* SpecW: "start" | "done"
    w_which,      \* SpecW: the writer that ran: "none" | "srt" | "txt" | "json"
    w_segments,   \* SpecW: the segments handed to the writer
    fs,           \* the files: path |-> content, defined on the paths that exist
    dirs,         \* the directories that exist (a set of paths)
    m_pc,         \* SpecMain: where main() is
    m_args,       \* SpecMain: args.file, args.formats, args.output_dir
    m_stream,     \* SpecMain: the segments the model's generator has yet to yield
    segment_list, \* SpecMain: main's segment_list
    m_run,        \* SpecMain: the number of the run (1 = the first)
    m_start,      \* SpecMain: fs and dirs as they were when the run started
    m_first,      \* SpecMain: segment_list and fs at the end of the first run
    i_pc,         \* SpecI: the prompt interactive_setup is at, or "returned"
    i_args,       \* SpecI: the args namespace
    i_has_gpu,    \* SpecI: torch.cuda.is_available()
    i_asked,      \* SpecI: the prompt that read the last line ("none" before any)
    i_line        \* SpecI: the last line input() returned

ts_vars == <<ts_pc, ts_start, ts_end, ts_out_start, ts_out_end>>
w_vars == <<w_pc, w_which, w_segments>>
m_vars == <<m_pc, m_args, m_stream, segment_list, m_run, m_start, m_first>>
i_vars == <<i_pc, i_args, i_has_gpu, i_asked, i_line>>
vars == <<ts_vars, w_vars, fs, dirs, m_vars, i_vars>>

(***************************************************************************)
(* Bounds of the model.                                                    *)
(***************************************************************************)
MaxHours == 100
\* SpecW: a list of segments costs one per segment plus one per character of text.
MaxCost == 6
\* SpecMain: the number of runs of main() over the same files.
MaxRuns == 2
\* SpecI: the longest line typed at a numeric prompt or a menu.
MaxInputLen == 2
\* SpecI: the longest line typed at the file prompt.
MaxPathInputLen == 3

(***************************************************************************)
(* Units.                                                                  *)
(***************************************************************************)
TicksPerMicro == 10
MicrosPerMilli == 1000
MicrosPerSecond == 1000000
SecondsPerDay == 86400
TicksPerMilli == TicksPerMicro * MicrosPerMilli
TicksPerSecond == TicksPerMicro * MicrosPerSecond
MillisPerSecond == 1000

(***************************************************************************)
(* Characters and decimal formatting.                                      *)
(***************************************************************************)
DigitChars == <<"0", "1", "2", "3", "4", "5", "6", "7", "8", "9">>

IsDigit(c) == \E i \in 1..10 : DigitChars[i] = c

DigitValue(c) == (CHOOSE i \in 1..10 : DigitChars[i] = c) - 1

\* str(n) / format(n, "d") of a non-negative integer.
RECURSIVE Dec(_)
Dec(n) == IF n < 10 THEN <<DigitChars[n + 1]>>
          ELSE Dec(n \div 10) \o <<DigitChars[(n % 10) + 1]>>

\* The format spec "0w": zeros on the left up to a minimum width, never a cut.
RECURSIVE ZeroPad(_, _)
ZeroPad(s, w) == IF Len(s) >= w THEN s ELSE ZeroPad(<<"0">> \o s, w)

\* int(s) of a string of decimal digits.
RECURSIVE ParseDec(_)
ParseDec(s) == IF s = <<>> THEN 0
               ELSE ParseDec(SubSeq(s, 1, Len(s) - 1)) * 10 + DigitValue(s[Len(s)])

AllDigits(s) == \A i \in 1..Len(s) : IsDigit(s[i])

\* The index of the first c in s, 0 when there is none.
RECURSIVE IndexFrom(_, _, _)
IndexFrom(s, c, i) == IF i > Len(s) THEN 0
                      ELSE IF s[i] = c THEN i
                      ELSE IndexFrom(s, c, i + 1)

Tail2(s, i) == SubSeq(s, i, Len(s))

\* str.split(sep) for a one-character separator: "" gives [""].
RECURSIVE Split(_, _)
Split(s, sep) ==
    LET i == IndexFrom(s, sep, 1)
    IN  IF i = 0 THEN <<s>>
        ELSE <<SubSeq(s, 1, i - 1)>> \o Split(Tail2(s, i + 1), sep)

(***************************************************************************)
(* datetime.timedelta(seconds=x) for a float x >= 0: the fraction is       *)
(* rounded to the nearest microsecond, ties to even, a full second is      *)
(* carried, and the value is normalised to days, seconds (0..86399) and    *)
(* microseconds (0..999999).                                               *)
(***************************************************************************)
RoundHalfEven(n, d) ==
    LET q == n \div d
        r == n % d
    IN  IF 2 * r < d THEN q
        ELSE IF 2 * r > d THEN q + 1
        ELSE IF q % 2 = 0 THEN q ELSE q + 1

timedelta(x) ==
    LET us == RoundHalfEven(x.frac, TicksPerMicro)
        s  == x.sec + (us \div MicrosPerSecond)
    IN  [days |-> s \div SecondsPerDay,
         seconds |-> s % SecondsPerDay,
         microseconds |-> us % MicrosPerSecond]

\* int(td.total_seconds()) for a non-negative timedelta: the whole seconds.
total_seconds_int(td) == td.days * SecondsPerDay + td.seconds

format_srt_timestamp_RawMicros(seconds) ==
    LET td == timedelta(seconds)
        total_seconds == total_seconds_int(td)
        hours == total_seconds \div 3600
        remainder == total_seconds % 3600
        minutes == remainder \div 60
        secs == remainder % 60
        milliseconds == td.microseconds
    IN  ZeroPad(Dec(hours), 2) \o <<":">> \o ZeroPad(Dec(minutes), 2) \o <<":">>
        \o ZeroPad(Dec(secs), 2) \o <<",">> \o ZeroPad(Dec(milliseconds), 3)

format_srt_timestamp_Mod100(seconds) ==
    LET td == timedelta(seconds)
        total_seconds == total_seconds_int(td)
        hours == (total_seconds \div 3600) % 100
        remainder == total_seconds % 3600
        minutes == remainder \div 60
        secs == remainder % 60
        milliseconds == td.microseconds \div MicrosPerMilli
    IN  ZeroPad(Dec(hours), 2) \o <<":">> \o ZeroPad(Dec(minutes), 2) \o <<":">>
        \o ZeroPad(Dec(secs), 2) \o <<",">> \o ZeroPad(Dec(milliseconds), 3)

format_srt_timestamp(seconds) ==
    LET td == timedelta(seconds)
        total_seconds == total_seconds_int(td)
        hours == total_seconds \div 3600
        remainder == total_seconds % 3600
        minutes == remainder \div 60
        secs == remainder % 60
        milliseconds == td.microseconds \div MicrosPerMilli
    IN  ZeroPad(Dec(hours), 2) \o <<":">> \o ZeroPad(Dec(minutes), 2) \o <<":">>
        \o ZeroPad(Dec(secs), 2) \o <<",">> \o ZeroPad(Dec(milliseconds), 3)

(***************************************************************************)
(* Text.                                                                   *)
(***************************************************************************)
NL == "\n"
SP == " "
QUOTE == "\""
BACKSLASH == "\\"

IsSpace(c) == c \in {SP, NL, "\t", "\r"}

RECURSIVE lstrip(_)
lstrip(s) == IF s # <<>> /\ IsSpace(s[1]) THEN lstrip(Tail(s)) ELSE s

RECURSIVE rstrip(_)
rstrip(s) == IF s # <<>> /\ IsSpace(s[Len(s)]) THEN rstrip(SubSeq(s, 1, Len(s) - 1)) ELSE s

\* str.strip()
strip(s) == rstrip(lstrip(s))

\* The concatenation of a sequence of strings.
RECURSIVE Concat(_)
Concat(ss) == IF ss = <<>> THEN <<>> ELSE Head(ss) \o Concat(Tail(ss))

(***************************************************************************)
(* Files: open(path, "w") creates the file or cuts it to nothing, f.write  *)
(* adds at the end.                                                        *)
(***************************************************************************)
open_a(files, path) ==
    [p \in DOMAIN files \cup {path} |-> IF p \in DOMAIN files THEN files[p] ELSE <<>>]

open_w(files, path) ==
    [p \in DOMAIN files \cup {path} |-> IF p = path THEN <<>> ELSE files[p]]

f_write(files, path, data) == [files EXCEPT ![path] = @ \o data]

(***************************************************************************)
(* write_srt                                                               *)
(***************************************************************************)
ARROW == <<SP, "-", "-", ">", SP>>

RECURSIVE srt_loop(_, _, _, _, _)
srt_loop(files, segments, k, i, out_path) ==
    IF k > Len(segments) THEN files
    ELSE LET seg == segments[k]
             f1 == f_write(files, out_path, Dec(i) \o <<NL>>)
             f2 == f_write(f1, out_path,
                           format_srt_timestamp(seg.start) \o ARROW
                           \o format_srt_timestamp(seg.end) \o <<NL>>)
             f3 == f_write(f2, out_path, strip(seg.text) \o <<NL, NL>>)
         IN  srt_loop(f3, segments, k + 1, i + 1, out_path)

write_srt_FromZero(files, segments, out_path) ==
    srt_loop(open_w(files, out_path), segments, 1, 0, out_path)

write_srt(files, segments, out_path) ==
    srt_loop(open_w(files, out_path), segments, 1, 1, out_path)

(***************************************************************************)
(* write_txt                                                               *)
(***************************************************************************)
RECURSIVE txt_loop(_, _, _, _)
txt_loop(files, segments, k, out_path) ==
    IF k > Len(segments) THEN files
    ELSE txt_loop(f_write(files, out_path, strip(segments[k].text) \o <<NL>>),
                  segments, k + 1, out_path)

RECURSIVE txt_loop_SkipEmpty(_, _, _, _)
txt_loop_SkipEmpty(files, segments, k, out_path) ==
    IF k > Len(segments) THEN files
    ELSE txt_loop_SkipEmpty(
             IF strip(segments[k].text) = <<>> THEN files
             ELSE f_write(files, out_path, strip(segments[k].text) \o <<NL>>),
             segments, k + 1, out_path)

write_txt_SkipEmpty(files, segments, out_path) ==
    txt_loop_SkipEmpty(open_w(files, out_path), segments, 1, out_path)

write_txt(files, segments, out_path) ==
    txt_loop(open_w(files, out_path), segments, 1, out_path)

(***************************************************************************)
(* write_json: json.dump(output, f, indent=2).  A float is written by its  *)
(* repr, modelled for the positional notation repr uses from 0.0001 up to  *)
(* 1e16 (and for 0.0): the whole seconds, a point, and the digits of the   *)
(* fraction without trailing zeros, at least one.                          *)
(***************************************************************************)
FracDigits == Len(Dec(TicksPerSecond)) - 1

RECURSIVE DropTrailingZeros(_)
DropTrailingZeros(s) ==
    IF Len(s) > 1 /\ s[Len(s)] = "0" THEN DropTrailingZeros(SubSeq(s, 1, Len(s) - 1))
    ELSE s

float_repr(x) ==
    Dec(x.sec) \o <<".">> \o DropTrailingZeros(ZeroPad(Dec(x.frac), FracDigits))

\* json.encoder's escape of one character of a string (ensure_ascii).
json_escape(c) ==
    IF c = QUOTE THEN <<BACKSLASH, QUOTE>>
    ELSE IF c = BACKSLASH THEN <<BACKSLASH, BACKSLASH>>
    ELSE IF c = NL THEN <<BACKSLASH, "n">>
    ELSE IF c = "\t" THEN <<BACKSLASH, "t">>
    ELSE IF c = "\r" THEN <<BACKSLASH, "r">>
    ELSE <<c>>

json_string(s) ==
    <<QUOTE>> \o Concat([i \in 1..Len(s) |-> json_escape(s[i])]) \o <<QUOTE>>

Key(name) == <<SP, SP, SP, SP>> \o json_string(name) \o <<":", SP>>

json_object(o) ==
    <<SP, SP, "{", NL>>
    \o Key(<<"s", "t", "a", "r", "t">>) \o float_repr(o.start) \o <<",", NL>>
    \o Key(<<"e", "n", "d">>) \o float_repr(o.end) \o <<",", NL>>
    \o Key(<<"t", "e", "x", "t">>) \o json_string(o.text) \o <<NL>>
    \o <<SP, SP, "}">>

RECURSIVE json_items(_, _)
json_items(output, k) ==
    IF k > Len(output) THEN <<>>
    ELSE json_object(output[k])
         \o (IF k < Len(output) THEN <<",", NL>> ELSE <<NL>>)
         \o json_items(output, k + 1)

json_dumps(output) ==
    IF output = <<>> THEN <<"[", "]">>
    ELSE <<"[", NL>> \o json_items(output, 1) \o <<"]">>

\* round(x, 3) of a time: the fraction rounded to whole milliseconds.
Round3(x) ==
    LET ms == RoundHalfEven(x.frac, TicksPerMilli)
    IN  [sec |-> x.sec + (ms \div MillisPerSecond),
         frac |-> (ms % MillisPerSecond) * TicksPerMilli]

write_json_Rounded(files, segments, out_path) ==
    LET output == [k \in 1..Len(segments) |->
                      [start |-> Round3(segments[k].start),
                       end |-> Round3(segments[k].end),
                       text |-> strip(segments[k].text)]]
    IN  f_write(open_w(files, out_path), out_path, json_dumps(output))

write_json_NoArrayWhenEmpty(files, segments, out_path) ==
    LET output == [k \in 1..Len(segments) |->
                      [start |-> segments[k].start,
                       end |-> segments[k].end,
                       text |-> strip(segments[k].text)]]
    IN  f_write(open_w(files, out_path), out_path,
                IF output = <<>> THEN <<>> ELSE json_dumps(output))

write_json(files, segments, out_path) ==
    LET output == [k \in 1..Len(segments) |->
                      [start |-> segments[k].start,
                       end |-> segments[k].end,
                       text |-> strip(segments[k].text)]]
    IN  f_write(open_w(files, out_path), out_path, json_dumps(output))

(***************************************************************************)
(* SpecTs: format_srt_timestamp applied to a segment's start and end, as   *)
(* write_srt does for the timestamp line of a cue.                         *)
(***************************************************************************)
TsHours == {0, 1, MaxHours - 1, MaxHours}
TsMinutes == {0, 59}
TsSeconds == {0, 59}
TsMillis == {0, 1, 999}
\* Ticks below one millisecond: exact, a tie that rounds down to an even
\* microsecond, and a tie that rounds up and carries into the next millisecond.
TsSubMilli == {0, 5, TicksPerMilli - 5}

TsInputs ==
    { [sec |-> h * 3600 + m * 60 + s, frac |-> ms * TicksPerMilli + sub] :
        <<h, m, s, ms, sub>> \in TsHours \X TsMinutes \X TsSeconds \X TsMillis \X TsSubMilli }

IdleW ==
    /\ w_pc = "idle"
    /\ w_which = "none"
    /\ w_segments = <<>>

NoRun == [segments |-> <<>>, fs |-> <<>>]

IdleMain ==
    /\ m_pc = "idle"
    /\ m_args = [file |-> <<>>, formats |-> <<>>, output_dir |-> <<>>]
    /\ m_stream = <<>>
    /\ segment_list = <<>>
    /\ m_run = 0
    /\ m_start = [fs |-> <<>>, dirs |-> {}]
    /\ m_first = NoRun

\* argparse's defaults (lines 164-172); None is the empty text.
DefaultArgs ==
    [file |-> <<>>, language |-> <<>>, output_dir |-> <<".">>,
     formats |-> <<"s", "r", "t", ",", "j", "s", "o", "n">>,
     model_size |-> "medium", device |-> "auto", compute_type |-> "auto",
     cpu_threads |-> 0, beam_size |-> 5]

IdleI ==
    /\ i_pc = "idle"
    /\ i_args = DefaultArgs
    /\ i_has_gpu = FALSE
    /\ i_asked = "none"
    /\ i_line = <<>>

InitTs ==
    /\ IdleW
    /\ IdleMain
    /\ IdleI
    /\ fs = <<>>
    /\ dirs = {}
    /\ ts_pc = "start"
    /\ ts_start \in TsInputs
    /\ ts_end \in TsInputs
    /\ ts_out_start = <<>>
    /\ ts_out_end = <<>>

FormatStart ==
    /\ ts_pc = "start"
    /\ ts_out_start' = format_srt_timestamp(ts_start)
    /\ ts_pc' = "one"
    /\ UNCHANGED <<ts_start, ts_end, ts_out_end, w_vars, fs, dirs, m_vars, i_vars>>

FormatEnd ==
    /\ ts_pc = "one"
    /\ ts_out_end' = format_srt_timestamp(ts_end)
    /\ ts_pc' = "done"
    /\ UNCHANGED <<ts_start, ts_end, ts_out_start, w_vars, fs, dirs, m_vars, i_vars>>

NextTs == FormatStart \/ FormatEnd

SpecTs == InitTs /\ [][NextTs]_vars

(***************************************************************************)
(* SpecW: one writer applied to a list of segments.                        *)
(***************************************************************************)
IdleTs ==
    /\ ts_pc = "idle"
    /\ ts_start = [sec |-> 0, frac |-> 0]
    /\ ts_end = [sec |-> 0, frac |-> 0]
    /\ ts_out_start = <<>>
    /\ ts_out_end = <<>>

TextAlphabet == {"a", SP, NL}

StringsOver(alphabet, n) == UNION { [1..k -> alphabet] : k \in 0..n }

\* The (start, end) pairs a segment of SpecW may carry, in seconds:
\* (0.0, 1.5) and (1.5, 3661.0014).
WSpans ==
    { << [sec |-> 0, frac |-> 0], [sec |-> 1, frac |-> 5000000] >>,
      << [sec |-> 1, frac |-> 5000000], [sec |-> 3661, frac |-> 14000] >> }

Segment(span, text) == [start |-> span[1], end |-> span[2], text |-> text]

\* The lists of segments of cost at most c.
RECURSIVE SegLists(_)
SegLists(c) ==
    IF c <= 0 THEN {<<>>}
    ELSE {<<>>} \cup
         UNION { { <<Segment(span, text)>> \o rest : rest \in SegLists(c - 1 - Len(text)) } :
                 <<span, text>> \in WSpans \X StringsOver(TextAlphabet, c - 1) }

WOutPath == <<"o">>

InitW ==
    /\ IdleTs
    /\ IdleMain
    /\ IdleI
    /\ w_pc = "start"
    /\ w_which = "none"
    /\ w_segments \in SegLists(MaxCost)
    /\ fs = <<>>
    /\ dirs = {}

CallWriteSrt ==
    /\ w_pc = "start"
    /\ fs' = write_srt(fs, w_segments, WOutPath)
    /\ w_which' = "srt"
    /\ w_pc' = "done"
    /\ UNCHANGED <<w_segments, ts_vars, dirs, m_vars, i_vars>>

CallWriteTxt ==
    /\ w_pc = "start"
    /\ fs' = write_txt(fs, w_segments, WOutPath)
    /\ w_which' = "txt"
    /\ w_pc' = "done"
    /\ UNCHANGED <<w_segments, ts_vars, dirs, m_vars, i_vars>>

CallWriteJson ==
    /\ w_pc = "start"
    /\ fs' = write_json(fs, w_segments, WOutPath)
    /\ w_which' = "json"
    /\ w_pc' = "done"
    /\ UNCHANGED <<w_segments, ts_vars, dirs, m_vars, i_vars>>

NextW == CallWriteSrt \/ CallWriteTxt \/ CallWriteJson

SpecW == InitW /\ [][NextW]_vars

(***************************************************************************)
(* Paths (POSIX): os.path.basename, os.path.splitext, os.path.join and     *)
(* os.makedirs(path, exist_ok=True).                                       *)
(***************************************************************************)
SEP == "/"
DOT == "."

\* The index of the last c in s, 0 when there is none.
RECURSIVE LastIndex(_, _, _)
LastIndex(s, c, i) == IF i < 1 THEN 0
                      ELSE IF s[i] = c THEN i
                      ELSE LastIndex(s, c, i - 1)

basename(path) == Tail2(path, LastIndex(path, SEP, Len(path)) + 1)

\* os.path.splitext(name)[0] of a name without a separator: the name up to its
\* last dot, when a character other than a dot comes before that dot.
splitext_root(name) ==
    LET d == LastIndex(name, DOT, Len(name))
    IN  IF d > 0 /\ \E i \in 1..d - 1 : name[i] # DOT
        THEN SubSeq(name, 1, d - 1)
        ELSE name

path_join(dir, name) ==
    IF dir = <<>> \/ dir[Len(dir)] = SEP THEN dir \o name
    ELSE dir \o <<SEP>> \o name

\* The path and the directories above it, as they are named in the path.
Ancestors(path) ==
    { SubSeq(path, 1, i - 1) : i \in {j \in 2..Len(path) : path[j] = SEP} } \cup {path}

\* os.makedirs(path, exist_ok=True): [ok, dirs].  It fails on the empty path
\* and when the path or a directory above it is a regular file.
makedirs(dirset, files, path) ==
    IF path = <<>> \/ \E a \in Ancestors(path) : a \in DOMAIN files
    THEN [ok |-> FALSE, dirs |-> dirset]
    ELSE [ok |-> TRUE, dirs |-> dirset \cup Ancestors(path)]

(***************************************************************************)
(* str.lower()                                                             *)
(***************************************************************************)
UpperChars == <<"A", "B", "C", "D", "E", "F", "G", "H", "I", "J", "K", "L", "M",
                "N", "O", "P", "Q", "R", "S", "T", "U", "V", "W", "X", "Y", "Z">>
LowerChars == <<"a", "b", "c", "d", "e", "f", "g", "h", "i", "j", "k", "l", "m",
                "n", "o", "p", "q", "r", "s", "t", "u", "v", "w", "x", "y", "z">>

lower_char(c) ==
    IF \E i \in 1..Len(UpperChars) : UpperChars[i] = c
    THEN LowerChars[CHOOSE i \in 1..Len(UpperChars) : UpperChars[i] = c]
    ELSE c

lower(s) == [i \in 1..Len(s) |-> lower_char(s[i])]

(***************************************************************************)
(* The output phase of main().                                             *)
(***************************************************************************)
SRT == <<"s", "r", "t">>
JSON == <<"j", "s", "o", "n">>
TXT == <<"t", "x", "t">>

InList(x, list) == \E i \in 1..Len(list) : list[i] = x

\* [fmt.strip().lower() for fmt in args.formats.split(",")]
parse_formats_NoLower(formats_arg) ==
    LET parts == Split(formats_arg, ",")
    IN  [i \in 1..Len(parts) |-> strip(parts[i])]

parse_formats(formats_arg) ==
    LET parts == Split(formats_arg, ",")
    IN  [i \in 1..Len(parts) |-> lower(strip(parts[i]))]

out_path(args, ext) ==
    path_join(args.output_dir, splitext_root(basename(args.file)) \o <<DOT>> \o ext)

\* Lines 243-262: [ok, files, dirs].
main_output(files, dirset, args, segments) ==
    LET md == makedirs(dirset, files, args.output_dir)
        formats == parse_formats(args.formats)
        f1 == IF InList(SRT, formats)
              THEN write_srt(files, segments, out_path(args, SRT)) ELSE files
        f2 == IF InList(JSON, formats)
              THEN write_json(f1, segments, out_path(args, JSON)) ELSE f1
        f3 == IF InList(TXT, formats)
              THEN write_txt(f2, segments, out_path(args, TXT)) ELSE f2
    IN  IF md.ok THEN [ok |-> TRUE, files |-> f3, dirs |-> md.dirs]
        ELSE [ok |-> FALSE, files |-> files, dirs |-> dirset]

(***************************************************************************)
(* SpecMain: main() from the loading of the model on, run up to MaxRuns    *)
(* times over the same files.  The resolution of the device and of the     *)
(* compute type (lines 181-196), the printing and the progress bar touch   *)
(* neither the segments nor the files and are left out.                    *)
(***************************************************************************)
\* args.file: a.w, d/a.w, a.b.w, .h, a, d.x/a
MainFiles ==
    { <<"a", ".", "w">>, <<"d", "/", "a", ".", "w">>, <<"a", ".", "b", ".", "w">>,
      <<".", "h">>, <<"a">>, <<"d", ".", "x", "/", "a">> }

\* args.formats: "srt,json" (the default), "txt", " SRT , Txt", "srt,xyz", "",
\* "json,txt,srt", "srt,srt", "srtx"
MainFormats ==
    { <<"s", "r", "t", ",", "j", "s", "o", "n">>,
      <<"t", "x", "t">>,
      <<" ", "S", "R", "T", " ", ",", " ", "T", "x", "t">>,
      <<"s", "r", "t", ",", "x", "y", "z">>,
      <<>>,
      <<"j", "s", "o", "n", ",", "t", "x", "t", ",", "s", "r", "t">>,
      <<"s", "r", "t", ",", "s", "r", "t">>,
      <<"s", "r", "t", "x">> }

\* args.output_dir: "." (the default), "o", "o/p"
MainOutputDirs == { <<".">>, <<"o">>, <<"o", "/", "p">> }

CWD == <<".">>

\* What a file held before the run.
OldContent == <<"x">>

\* The segment sequences the model may yield.
MainSegment(text) ==
    [start |-> [sec |-> 0, frac |-> 0], end |-> [sec |-> 1, frac |-> 5000000], text |-> text]

MainStreams ==
    { <<>>, <<MainSegment(<<" ", "a">>)>>, <<MainSegment(<<"a">>), MainSegment(<<"b", " ">>)>> }

\* The files and directories a run may find: nothing but the working
\* directory; the output directory, empty; the output directory with an old
\* file of each format; a regular file where the output directory is to be.
Worlds(args) ==
    LET chain == Ancestors(args.output_dir) \cup {CWD}
        targets == { out_path(args, ext) : ext \in {SRT, JSON, TXT} }
    IN  { [fs |-> <<>>, dirs |-> {CWD}],
          [fs |-> <<>>, dirs |-> chain],
          [fs |-> [p \in targets |-> OldContent], dirs |-> chain] }
        \cup (IF args.output_dir = CWD THEN {}
              ELSE { [fs |-> [p \in {args.output_dir} |-> OldContent], dirs |-> {CWD}] })

InitMain ==
    /\ IdleTs
    /\ IdleW
    /\ IdleI
    /\ m_pc = "start"
    /\ m_args \in [file : MainFiles, formats : MainFormats, output_dir : MainOutputDirs]
    /\ \E w \in Worlds(m_args) : fs = w.fs /\ dirs = w.dirs /\ m_start = w
    /\ m_stream = <<>>
    /\ segment_list = <<>>
    /\ m_run = 1
    /\ m_first = NoRun

\* Line 198: WhisperModel(...) returns.
LoadModel_MakedirsFirst ==
    /\ m_pc = "start"
    /\ m_pc' = "loaded"
    /\ dirs' = makedirs(dirs, fs, m_args.output_dir).dirs
    /\ UNCHANGED <<fs, m_args, m_stream, segment_list, m_run, m_start, m_first,
                   ts_vars, w_vars, i_vars>>

LoadModel ==
    /\ m_pc = "start"
    /\ m_pc' = "loaded"
    /\ UNCHANGED <<fs, dirs, m_args, m_stream, segment_list, m_run, m_start, m_first,
                   ts_vars, w_vars, i_vars>>

\* Lines 216-227: model.transcribe(...) returns the lazy segment stream.
Transcribe ==
    /\ m_pc = "loaded"
    /\ m_stream' \in MainStreams
    /\ segment_list' = <<>>
    /\ m_pc' = "iterating"
    /\ UNCHANGED <<fs, dirs, m_args, m_run, m_start, m_first, ts_vars, w_vars, i_vars>>

\* Lines 230-233: the stream yields a segment.
NextSegment ==
    /\ m_pc = "iterating"
    /\ m_stream # <<>>
    /\ segment_list' = Append(segment_list, Head(m_stream))
    /\ m_stream' = Tail(m_stream)
    /\ UNCHANGED <<fs, dirs, m_pc, m_args, m_run, m_start, m_first, ts_vars, w_vars, i_vars>>

\* The external model raises: while loading, in transcribe, or in the
\* iteration of the stream.  Nothing catches it and the run ends.
ModelFails ==
    /\ m_pc \in {"start", "loaded", "iterating"}
    /\ m_pc' = "failed_model"
    /\ UNCHANGED <<fs, dirs, m_args, m_stream, segment_list, m_run, m_start, m_first,
                   ts_vars, w_vars, i_vars>>

\* Lines 234-268: the stream is exhausted; the outputs are written.
WriteOutputs ==
    /\ m_pc = "iterating"
    /\ m_stream = <<>>
    /\ LET r == main_output(fs, dirs, m_args, segment_list)
       IN  /\ fs' = r.files
           /\ dirs' = r.dirs
           /\ m_pc' = IF r.ok THEN "done" ELSE "failed_output"
           /\ m_first' = IF r.ok /\ m_run = 1
                         THEN [segments |-> segment_list, fs |-> r.files]
                         ELSE m_first
    /\ UNCHANGED <<m_args, m_stream, segment_list, m_run, m_start, ts_vars, w_vars, i_vars>>

\* The program is started again with the same arguments.
RunAgain ==
    /\ m_pc = "done"
    /\ m_run < MaxRuns
    /\ m_run' = m_run + 1
    /\ m_pc' = "start"
    /\ m_start' = [fs |-> fs, dirs |-> dirs]
    /\ segment_list' = <<>>
    /\ UNCHANGED <<fs, dirs, m_args, m_stream, m_first, ts_vars, w_vars, i_vars>>

NextMain ==
    \/ LoadModel
    \/ Transcribe
    \/ NextSegment
    \/ ModelFails
    \/ WriteOutputs
    \/ RunAgain

SpecMain == InitMain /\ [][NextMain]_vars

(***************************************************************************)
(* get_user_choice and interactive_setup.  An action is the code from one  *)
(* input() to the next: it reads a line, and either asks again or stores   *)
(* the setting and goes on to the next prompt.                             *)
(***************************************************************************)
\* str.strip(chars) for a set of characters.
RECURSIVE strip_chars(_, _)
strip_chars(s, cs) ==
    IF s # <<>> /\ s[1] \in cs THEN strip_chars(Tail(s), cs)
    ELSE IF s # <<>> /\ s[Len(s)] \in cs THEN strip_chars(SubSeq(s, 1, Len(s) - 1), cs)
    ELSE s

\* int(s): [ok, val]; ok is FALSE where int raises ValueError.
parse_int(s) ==
    LET t == strip(s)
        neg == t # <<>> /\ t[1] = "-"
        digits == IF neg THEN Tail(t) ELSE t
    IN  IF digits # <<>> /\ AllDigits(digits)
        THEN [ok |-> TRUE, val |-> IF neg THEN 0 - ParseDec(digits) ELSE ParseDec(digits)]
        ELSE [ok |-> FALSE, val |-> 0]

\* One turn of get_user_choice's loop (lines 57-68) on a line: [ret, val].
\* Every call of the program passes a default.
get_user_choice(options, default, line) ==
    LET choice_str == strip(line)
        r == parse_int(choice_str)
    IN  IF choice_str = <<>> THEN [ret |-> TRUE, val |-> default]
        ELSE IF r.ok /\ 1 <= r.val /\ r.val <= Len(options)
             THEN [ret |-> TRUE, val |-> options[r.val]]
        ELSE [ret |-> FALSE, val |-> default]

available_devices == IF i_has_gpu THEN <<"cuda", "cpu">> ELSE <<"cpu">>
default_device == IF i_has_gpu THEN "cuda" ELSE "cpu"
model_sizes == <<"tiny", "base", "small", "medium", "large-v2", "large-v3">>
compute_types(device) ==
    IF device = "cuda" THEN <<"float16", "int8_float16", "int8">> ELSE <<"int8", "float32">>
default_compute(device) == IF device = "cuda" THEN "float16" ELSE "int8"

\* The lines a user may type.
NumAlphabet == {"0", "1", "-", SP}
NumLines == StringsOver(NumAlphabet, MaxInputLen)
MenuAlphabet == {"0", "1", "2", "3", "-", SP}
MenuLines == StringsOver(MenuAlphabet, MaxInputLen)
PathAlphabet == {"f", "d", QUOTE, "'", SP}
PathLines == StringsOver(PathAlphabet, MaxPathInputLen)
LanguageLines == { <<>>, <<SP, "e", "n">> }
OutputDirLines == { <<SP>>, <<"o">> }
FormatsLines == { <<>>, <<"T", "x", "t", SP>> }

\* The files of SpecI: the regular file f and the directory d.
IFile == <<"f">>
IDir == <<"d">>

Asked(prompt, line) == i_asked' = prompt /\ i_line' = line

InitI ==
    /\ IdleTs
    /\ IdleW
    /\ IdleMain
    /\ fs = [p \in {IFile} |-> <<>>]
    /\ dirs = {CWD, IDir}
    /\ i_pc = "file"
    /\ \E cli \in { <<0, 5>>, <<0 - 1, 0>> } :
          i_args = [DefaultArgs EXCEPT !.cpu_threads = cli[1], !.beam_size = cli[2]]
    /\ i_has_gpu \in BOOLEAN
    /\ i_asked = "none"
    /\ i_line = <<>>

IUnchanged == UNCHANGED <<ts_vars, w_vars, fs, dirs, m_vars, i_has_gpu>>

\* Lines 76-94: the file prompt and, without a GPU, the choice of the device.
PromptFile ==
    /\ i_pc = "file"
    /\ \E line \in PathLines :
          LET file_path == strip_chars(strip_chars(strip(line), {QUOTE}), {"'"})
          IN  /\ Asked("file", line)
              /\ IF file_path \in DOMAIN fs
                 THEN /\ i_args' = [i_args EXCEPT
                                      !.file = file_path,
                                      !.device = IF i_has_gpu THEN @ ELSE default_device]
                      /\ i_pc' = IF i_has_gpu THEN "device" ELSE "model_size"
                 ELSE UNCHANGED <<i_pc, i_args>>
    /\ IUnchanged

\* Line 91: the device menu, asked when there is a GPU.
PromptDevice ==
    /\ i_pc = "device"
    /\ \E line \in MenuLines :
          LET r == get_user_choice(available_devices, default_device, line)
          IN  /\ Asked("device", line)
              /\ IF r.ret
                 THEN i_args' = [i_args EXCEPT !.device = r.val] /\ i_pc' = "model_size"
                 ELSE UNCHANGED <<i_pc, i_args>>
    /\ IUnchanged

\* Lines 97-98: the model size menu.
PromptModelSize ==
    /\ i_pc = "model_size"
    /\ \E line \in MenuLines :
          LET r == get_user_choice(model_sizes, "medium", line)
          IN  /\ Asked("model_size", line)
              /\ IF r.ret
                 THEN i_args' = [i_args EXCEPT !.model_size = r.val] /\ i_pc' = "compute_type"
                 ELSE UNCHANGED <<i_pc, i_args>>
    /\ IUnchanged

\* Lines 101-113: the compute type menu.
PromptComputeType ==
    /\ i_pc = "compute_type"
    /\ \E line \in MenuLines :
          LET r == get_user_choice(compute_types(i_args.device),
                                   default_compute(i_args.device), line)
          IN  /\ Asked("compute_type", line)
              /\ IF r.ret
                 THEN /\ i_args' = [i_args EXCEPT !.compute_type = r.val]
                      /\ i_pc' = IF i_args.device = "cpu" THEN "cpu_threads" ELSE "beam_size"
                 ELSE UNCHANGED <<i_pc, i_args>>
    /\ IUnchanged

\* Lines 114-127: the CPU threads prompt.
PromptCpuThreads ==
    /\ i_pc = "cpu_threads"
    /\ \E line \in NumLines :
          LET cpu_threads_str == strip(line)
              r == parse_int(cpu_threads_str)
          IN  /\ Asked("cpu_threads", line)
              /\ IF cpu_threads_str = <<>>
                 THEN i_args' = [i_args EXCEPT !.cpu_threads = 0] /\ i_pc' = "beam_size"
                 ELSE IF r.ok /\ r.val >= 0
                 THEN i_args' = [i_args EXCEPT !.cpu_threads = r.val] /\ i_pc' = "beam_size"
                 ELSE UNCHANGED <<i_pc, i_args>>
    /\ IUnchanged

\* Lines 130-143: the beam size prompt.
PromptBeamSize_AllowZero ==
    /\ i_pc = "beam_size"
    /\ \E line \in NumLines :
          LET beam_size_str == strip(line)
              r == parse_int(beam_size_str)
          IN  /\ Asked("beam_size", line)
              /\ IF beam_size_str = <<>>
                 THEN i_args' = [i_args EXCEPT !.beam_size = 5] /\ i_pc' = "language"
                 ELSE IF r.ok /\ r.val >= 0
                 THEN i_args' = [i_args EXCEPT !.beam_size = r.val] /\ i_pc' = "language"
                 ELSE UNCHANGED <<i_pc, i_args>>
    /\ IUnchanged

PromptBeamSize ==
    /\ i_pc = "beam_size"
    /\ \E line \in NumLines :
          LET beam_size_str == strip(line)
              r == parse_int(beam_size_str)
          IN  /\ Asked("beam_size", line)
              /\ IF beam_size_str = <<>>
                 THEN i_args' = [i_args EXCEPT !.beam_size = 5] /\ i_pc' = "language"
                 ELSE IF r.ok /\ r.val > 0
                 THEN i_args' = [i_args EXCEPT !.beam_size = r.val] /\ i_pc' = "language"
                 ELSE UNCHANGED <<i_pc, i_args>>
    /\ IUnchanged

\* Lines 146-147: the language prompt.
PromptLanguage ==
    /\ i_pc = "language"
    /\ \E line \in LanguageLines :
          /\ Asked("language", line)
          /\ i_args' = [i_args EXCEPT !.language = strip(line)]
    /\ i_pc' = "output_dir"
    /\ IUnchanged

\* Lines 150-151: the output directory prompt.
PromptOutputDir ==
    /\ i_pc = "output_dir"
    /\ \E line \in OutputDirLines :
          /\ Asked("output_dir", line)
          /\ i_args' = [i_args EXCEPT !.output_dir =
                           IF strip(line) # <<>> THEN strip(line)
                           ELSE <<"o", "u", "t", "p", "u", "t">>]
    /\ i_pc' = "formats"
    /\ IUnchanged

\* Lines 154-158: the formats prompt; interactive_setup returns.
PromptFormats ==
    /\ i_pc = "formats"
    /\ \E line \in FormatsLines :
          /\ Asked("formats", line)
          /\ i_args' = [i_args EXCEPT !.formats =
                           IF lower(strip(line)) # <<>> THEN lower(strip(line)) ELSE SRT]
    /\ i_pc' = "returned"
    /\ IUnchanged

\* input() raises (end of input, an interrupt): interactive_setup does not return.
InputEnds ==
    /\ i_pc \notin {"returned", "aborted"}
    /\ i_pc' = "aborted"
    /\ UNCHANGED <<i_args, i_asked, i_line>>
    /\ IUnchanged

NextI ==
    \/ PromptFile
    \/ PromptDevice
    \/ PromptModelSize
    \/ PromptComputeType
    \/ PromptCpuThreads
    \/ PromptBeamSize
    \/ PromptLanguage
    \/ PromptOutputDir
    \/ PromptFormats
    \/ InputEnds

SpecI == InitI /\ [][NextI]_vars

(***************************************************************************)
(* Reading a timestamp back.                                               *)
(***************************************************************************)
\* s has the shape H..H:MM:SS,mmm: at least two digits of hours, two of
\* minutes (00-59), two of seconds (00-59), a comma, three of milliseconds.
TsShape(s) ==
    LET n == Len(s)
    IN  /\ n >= 12
        /\ s[n - 3] = ","
        /\ s[n - 6] = ":"
        /\ s[n - 9] = ":"
        /\ AllDigits(SubSeq(s, 1, n - 10))
        /\ AllDigits(SubSeq(s, n - 8, n - 7))
        /\ AllDigits(SubSeq(s, n - 5, n - 4))
        /\ AllDigits(SubSeq(s, n - 2, n))
        /\ ParseDec(SubSeq(s, n - 8, n - 7)) <= 59
        /\ ParseDec(SubSeq(s, n - 5, n - 4)) <= 59

\* hours*3600000 + minutes*60000 + seconds*1000 + milliseconds of a timestamp.
ReadBackMillis(s) ==
    LET hms == Split(s, ":")
        sms == Split(hms[3], ",")
    IN  ParseDec(hms[1]) * 3600000 + ParseDec(hms[2]) * 60000
        + ParseDec(sms[1]) * 1000 + ParseDec(sms[2])

WholeMillis(x) == x.frac % TicksPerMilli = 0

Millis(x) == x.sec * MillisPerSecond + (x.frac \div TicksPerMilli)

\* The hours of x once timedelta has rounded it to the microsecond.
RoundedHours(x) == total_seconds_int(timedelta(x)) \div 3600

TsCalls == IF ts_pc = "start" THEN <<>>
           ELSE IF ts_pc = "one" THEN << <<ts_start, ts_out_start>> >>
           ELSE << <<ts_start, ts_out_start>>, <<ts_end, ts_out_end>> >>

\* C1 as stated: every returned timestamp is HH:MM:SS,mmm with exactly two
\* digits of hours, two of minutes (00-59), two of seconds (00-59), a comma and
\* three of milliseconds, for any non-negative duration.
C1_Original ==
    \A i \in 1..Len(TsCalls) : TsShape(TsCalls[i][2]) /\ Len(TsCalls[i][2]) = 12

\* C1 amended: every returned timestamp is H..H:MM:SS,mmm, zero-padded, with
\* minutes and seconds in 00-59 and three digits of milliseconds; the hours take
\* exactly two digits when the duration (rounded to the microsecond) is under
\* 100 hours and more than two digits from 100 hours on.
C1_Amended ==
    \A i \in 1..Len(TsCalls) :
        /\ TsShape(TsCalls[i][2])
        /\ (Len(TsCalls[i][2]) = 12 <=> RoundedHours(TsCalls[i][1]) < 100)

C1_Witness ==
    /\ ts_pc = "done"
    /\ RoundedHours(ts_start) < 100 /\ ts_start.frac # 0
    /\ RoundedHours(ts_end) >= 100

\* C10: for a duration of whole milliseconds, the timestamp read back as
\* hours*3600000 + minutes*60000 + seconds*1000 + milliseconds is the duration;
\* so distinct durations give distinct timestamps, and a start <= end never
\* reads back later than the end.
C10_RoundTrip ==
    (ts_pc = "done" /\ WholeMillis(ts_start) /\ WholeMillis(ts_end)) =>
        /\ ReadBackMillis(ts_out_start) = Millis(ts_start)
        /\ ReadBackMillis(ts_out_end) = Millis(ts_end)
        /\ (ts_out_start = ts_out_end => ts_start = ts_end)
        /\ (Millis(ts_start) <= Millis(ts_end) =>
                ReadBackMillis(ts_out_start) <= ReadBackMillis(ts_out_end))

C10_Witness ==
    /\ ts_pc = "done"
    /\ WholeMillis(ts_start) /\ WholeMillis(ts_end)
    /\ Millis(ts_start) < Millis(ts_end)
    /\ ts_start.frac # 0
    /\ RoundedHours(ts_end) >= 100

(***************************************************************************)
(* Reading the written files back.                                         *)
(***************************************************************************)
WFile == fs[WOutPath]

Wrote(which) == w_pc = "done" /\ w_which = which

\* The lines of a text file: the pieces between line breaks, the last line
\* break ending the last line.
Lines(content) ==
    IF content = <<>> THEN <<>>
    ELSE IF content[Len(content)] = NL
         THEN Split(SubSeq(content, 1, Len(content) - 1), NL)
         ELSE Split(content, NL)

\* str.join of a one-character separator.
RECURSIVE Join(_, _)
Join(ss, sep) ==
    IF ss = <<>> THEN <<>>
    ELSE IF Len(ss) = 1 THEN ss[1]
    ELSE ss[1] \o <<sep>> \o Join(Tail(ss), sep)

\* The blocks of an SRT file: the maximal runs of non-empty lines.
RECURSIVE Blocks(_, _)
Blocks(lines, cur) ==
    IF lines = <<>> THEN (IF cur = <<>> THEN <<>> ELSE <<cur>>)
    ELSE IF Head(lines) = <<>>
         THEN (IF cur = <<>> THEN <<>> ELSE <<cur>>) \o Blocks(Tail(lines), <<>>)
         ELSE Blocks(Tail(lines), Append(cur, Head(lines)))

SrtCues(content) == Blocks(Lines(content), <<>>)

TimestampLine(seg) ==
    format_srt_timestamp(seg.start) \o ARROW \o format_srt_timestamp(seg.end)

\* Block b is the cue numbered k of segment seg.
IsCueOf(b, k, seg) ==
    /\ Len(b) >= 2
    /\ b[1] = Dec(k)
    /\ b[2] = TimestampLine(seg)
    /\ Join(SubSeq(b, 3, Len(b)), NL) = strip(seg.text)

HasEmptyLine(text) == \E i \in 1..Len(text) - 1 : text[i] = NL /\ text[i + 1] = NL

CountOf(s, c) == Cardinality({i \in 1..Len(s) : s[i] = c})

\* What the writer is to put in the file for cue k.
CueText(k, seg) ==
    Dec(k) \o <<NL>> \o TimestampLine(seg) \o <<NL>> \o strip(seg.text) \o <<NL, NL>>

\* C2 as stated: the file holds exactly n cues and the k-th is headed by k and
\* carries the k-th segment's timestamps and stripped text, whatever the texts.
C2_Original ==
    Wrote("srt") =>
        /\ Len(SrtCues(WFile)) = Len(w_segments)
        /\ \A k \in 1..Len(w_segments) : IsCueOf(SrtCues(WFile)[k], k, w_segments[k])

\* C2 amended: the file is, for k = 1..n in input order, the number k on a line,
\* the k-th segment's start --> end timestamps on the next, its stripped text and
\* an empty line; it reads back as exactly n cues, the k-th headed by k with the
\* k-th segment's timestamps and stripped text, whenever no stripped text
\* contains an empty line.
C2_Amended ==
    Wrote("srt") =>
        /\ WFile = Concat([k \in 1..Len(w_segments) |-> CueText(k, w_segments[k])])
        /\ (\A k \in 1..Len(w_segments) : ~HasEmptyLine(strip(w_segments[k].text))) =>
              /\ Len(SrtCues(WFile)) = Len(w_segments)
              /\ \A k \in 1..Len(w_segments) :
                    IsCueOf(SrtCues(WFile)[k], k, w_segments[k])

C2_Witness ==
    /\ Wrote("srt")
    /\ Len(w_segments) >= 2
    /\ w_segments[1].text = w_segments[2].text
    /\ \E k \in 1..Len(w_segments) : strip(w_segments[k].text) = <<>>
    /\ Len(SrtCues(WFile)) = Len(w_segments)

\* C7 as stated: the file has exactly n lines and the k-th line is the k-th
\* segment's text, for every possible text.
C7_Original ==
    Wrote("txt") =>
        /\ Len(Lines(WFile)) = Len(w_segments)
        /\ \A k \in 1..Len(w_segments) : Lines(WFile)[k] = w_segments[k].text

\* C7 amended: the file holds, in input order, each segment's text stripped of
\* leading and trailing whitespace and ended by a line break; a stripped text
\* with j line breaks inside takes j + 1 lines, so the file has exactly n lines,
\* the k-th being the k-th stripped text, when no stripped text has a line break.
C7_Amended ==
    Wrote("txt") =>
        /\ WFile = Concat([k \in 1..Len(w_segments) |-> strip(w_segments[k].text) \o <<NL>>])
        /\ Lines(WFile) = Concat([k \in 1..Len(w_segments) |->
                                     Split(strip(w_segments[k].text), NL)])
        /\ (\A k \in 1..Len(w_segments) : CountOf(strip(w_segments[k].text), NL) = 0) =>
              /\ Len(Lines(WFile)) = Len(w_segments)
              /\ \A k \in 1..Len(w_segments) :
                    Lines(WFile)[k] = strip(w_segments[k].text)

C7_Witness ==
    /\ Wrote("txt")
    /\ Len(w_segments) >= 2
    /\ \E k \in 1..Len(w_segments) : w_segments[k].text = <<SP>>
    /\ \E k \in 1..Len(w_segments) : CountOf(strip(w_segments[k].text), NL) > 0
    /\ Len(Lines(WFile)) > Len(w_segments)

(***************************************************************************)
(* A JSON reader for the written file: tokens, then an array of objects    *)
(* with the keys start, end and text in that order.                        *)
(***************************************************************************)
JsonPunct == {"[", "]", "{", "}", ":", ","}

Tok(kind, v) == [k |-> kind, v |-> v]

\* The characters of a string from position i (after its opening quote):
\* [ok, val, next].  A raw control character or an unknown escape is an error.
RECURSIVE ScanString(_, _, _)
ScanString(s, i, acc) ==
    IF i > Len(s) THEN [ok |-> FALSE, val |-> acc, next |-> i]
    ELSE IF s[i] = QUOTE THEN [ok |-> TRUE, val |-> acc, next |-> i + 1]
    ELSE IF s[i] \in {NL, "\t", "\r"} THEN [ok |-> FALSE, val |-> acc, next |-> i]
    ELSE IF s[i] = BACKSLASH
         THEN IF i + 1 > Len(s) THEN [ok |-> FALSE, val |-> acc, next |-> i]
              ELSE IF s[i + 1] = "n" THEN ScanString(s, i + 2, Append(acc, NL))
              ELSE IF s[i + 1] = "t" THEN ScanString(s, i + 2, Append(acc, "\t"))
              ELSE IF s[i + 1] = "r" THEN ScanString(s, i + 2, Append(acc, "\r"))
              ELSE IF s[i + 1] \in {QUOTE, BACKSLASH}
                   THEN ScanString(s, i + 2, Append(acc, s[i + 1]))
              ELSE [ok |-> FALSE, val |-> acc, next |-> i]
    ELSE ScanString(s, i + 1, Append(acc, s[i]))

\* The end of the run of digits and points that starts at i.
RECURSIVE NumberEnd(_, _)
NumberEnd(s, i) ==
    IF i <= Len(s) /\ (IsDigit(s[i]) \/ s[i] = ".") THEN NumberEnd(s, i + 1) ELSE i

RECURSIVE JsonTokens(_, _)
JsonTokens(s, i) ==
    IF i > Len(s) THEN <<>>
    ELSE IF IsSpace(s[i]) THEN JsonTokens(s, i + 1)
    ELSE IF s[i] \in JsonPunct THEN <<Tok("p", <<s[i]>>)>> \o JsonTokens(s, i + 1)
    ELSE IF s[i] = QUOTE
         THEN LET r == ScanString(s, i + 1, <<>>)
              IN  IF r.ok THEN <<Tok("s", r.val)>> \o JsonTokens(s, r.next)
                  ELSE <<Tok("error", <<>>)>>
    ELSE IF IsDigit(s[i])
         THEN LET j == NumberEnd(s, i)
              IN  <<Tok("n", SubSeq(s, i, j - 1))>> \o JsonTokens(s, j)
    ELSE <<Tok("error", <<>>)>>

\* digits "." digits
IsNumber(v) ==
    LET parts == Split(v, ".")
    IN  /\ Len(parts) = 2
        /\ parts[1] # <<>> /\ AllDigits(parts[1])
        /\ parts[2] # <<>> /\ AllDigits(parts[2]) /\ Len(parts[2]) <= FracDigits

RECURSIVE PadRight(_, _)
PadRight(s, w) == IF Len(s) >= w THEN s ELSE PadRight(Append(s, "0"), w)

\* The value of a number token, as a time.
NumberValue(v) ==
    LET parts == Split(v, ".")
    IN  [sec |-> ParseDec(parts[1]), frac |-> ParseDec(PadRight(parts[2], FracDigits))]

\* The kinds of the tokens of one object: { "start": n, "end": n, "text": s }.
ObjectShape == <<"p", "s", "p", "n", "p", "s", "p", "n", "p", "s", "p", "s", "p">>

ObjectTokens == Len(ObjectShape)

\* The tokens from position o are { "start": n, "end": n, "text": s }.
IsObjectAt(t, o) ==
    /\ \A i \in 1..ObjectTokens : t[o + i - 1].k = ObjectShape[i]
    /\ t[o] = Tok("p", <<"{">>)
    /\ t[o + 1] = Tok("s", <<"s", "t", "a", "r", "t">>)
    /\ t[o + 2] = Tok("p", <<":">>)
    /\ t[o + 3].k = "n" /\ IsNumber(t[o + 3].v)
    /\ t[o + 4] = Tok("p", <<",">>)
    /\ t[o + 5] = Tok("s", <<"e", "n", "d">>)
    /\ t[o + 6] = Tok("p", <<":">>)
    /\ t[o + 7].k = "n" /\ IsNumber(t[o + 7].v)
    /\ t[o + 8] = Tok("p", <<",">>)
    /\ t[o + 9] = Tok("s", <<"t", "e", "x", "t">>)
    /\ t[o + 10] = Tok("p", <<":">>)
    /\ t[o + 11].k = "s"
    /\ t[o + 12] = Tok("p", <<"}">>)

ObjectAt(t, o) ==
    [start |-> NumberValue(t[o + 3].v), end |-> NumberValue(t[o + 7].v), text |-> t[o + 11].v]

\* The number of objects of an array of n tokens, -1 when n fits none.
ArrayCount(n) ==
    IF n = 2 THEN 0
    ELSE IF n > 2 /\ (n - 1) % (ObjectTokens + 1) = 0 THEN (n - 1) \div (ObjectTokens + 1)
    ELSE -1

\* The tokens are a valid JSON array of {start, end, text} objects.
ValidJsonArray(t) ==
    LET m == ArrayCount(Len(t))
    IN  /\ m >= 0
        /\ t[1] = Tok("p", <<"[">>)
        /\ t[Len(t)] = Tok("p", <<"]">>)
        /\ \A k \in 1..m :
              /\ IsObjectAt(t, 2 + (k - 1) * (ObjectTokens + 1))
              /\ k < m => t[1 + k * (ObjectTokens + 1)] = Tok("p", <<",">>)

\* json.load of the file: [ok, val].
ReadJson(content) ==
    LET t == JsonTokens(content, 1)
        ok == ValidJsonArray(t)
    IN  [ok |-> ok,
         val |-> IF ok THEN [k \in 1..ArrayCount(Len(t)) |->
                               ObjectAt(t, 2 + (k - 1) * (ObjectTokens + 1))]
                 ELSE <<>>]

\* C3: the JSON file is a valid array of n objects in input order, the k-th with
\* the k-th segment's start and end unchanged and its stripped text.
C3_JsonPreserves ==
    Wrote("json") =>
        LET r == ReadJson(WFile)
        IN  /\ r.ok
            /\ Len(r.val) = Len(w_segments)
            /\ \A k \in 1..Len(w_segments) :
                  /\ r.val[k].start = w_segments[k].start
                  /\ r.val[k].end = w_segments[k].end
                  /\ r.val[k].text = strip(w_segments[k].text)

C3_Witness ==
    /\ Wrote("json")
    /\ Len(w_segments) >= 2
    /\ w_segments[1].start # w_segments[2].start
    /\ \E k \in 1..Len(w_segments) : CountOf(strip(w_segments[k].text), NL) > 0
    /\ \E k \in 1..Len(w_segments) : w_segments[k].end.frac % TicksPerMilli # 0

\* C5: with zero segments each writer ends normally and leaves a well-formed
\* empty file: the SRT and TXT files exist with no cue and no line, the JSON
\* file holds a valid empty array.
C5_EmptyInput ==
    (w_pc = "done" /\ w_segments = <<>>) =>
        /\ WOutPath \in DOMAIN fs
        /\ w_which = "srt" => (WFile = <<>> /\ SrtCues(WFile) = <<>>)
        /\ w_which = "txt" => (WFile = <<>> /\ Lines(WFile) = <<>>)
        /\ w_which = "json" =>
              (WFile = <<"[", "]">> /\ ReadJson(WFile) = [ok |-> TRUE, val |-> <<>>])

C5_Witness == Wrote("json") /\ w_segments = <<>> /\ WOutPath \in DOMAIN fs

(***************************************************************************)
(* The runs of main().                                                     *)
(***************************************************************************)
KnownFormats == {SRT, JSON, TXT}

\* ext is one of the comma-separated tokens of args.formats, once the token is
\* trimmed and put in lower case.
Requested(ext) ==
    \E i \in 1..Len(Split(m_args.formats, ",")) :
        lower(strip(Split(m_args.formats, ",")[i])) = ext

\* The name of the input file without its directories and without its last
\* extension (a name made of leading dots and one word has no extension).
BaseName(file) ==
    LET comps == Split(file, SEP)
        name == comps[Len(comps)]
        pieces == Split(name, DOT)
        n == Len(pieces)
    IN  IF n >= 2 /\ \E i \in 1..n - 1 : pieces[i] # <<>>
        THEN Join(SubSeq(pieces, 1, n - 1), DOT)
        ELSE name

\* <output directory>/<base name>.<format>
Target(ext) == m_args.output_dir \o <<SEP>> \o BaseName(m_args.file) \o <<DOT>> \o ext

Targets == { Target(ext) : ext \in {e \in KnownFormats : Requested(e)} }

\* The files this run created or changed.
Changed == { p \in DOMAIN fs : p \notin DOMAIN m_start.fs \/ fs[p] # m_start.fs[p] }

\* What a writer leaves in a file that did not exist.
Serialized(ext, segments) ==
    IF ext = SRT THEN write_srt(<<>>, segments, WOutPath)[WOutPath]
    ELSE IF ext = JSON THEN write_json(<<>>, segments, WOutPath)[WOutPath]
    ELSE write_txt(<<>>, segments, WOutPath)[WOutPath]

\* C4: the output phase creates the output directory if it is absent and does
\* not fail when it exists; each written file then holds exactly the
\* serialization of this run's segments, whatever it held before, so a second
\* run with the same segments leaves what the first left.
C4_Overwrite ==
    /\ m_pc = "done" =>
          /\ Ancestors(m_args.output_dir) \subseteq dirs
          /\ \A ext \in KnownFormats : Requested(ext) =>
                /\ Target(ext) \in DOMAIN fs
                /\ fs[Target(ext)] = Serialized(ext, segment_list)
          /\ (m_run > 1 /\ segment_list = m_first.segments) =>
                \A ext \in KnownFormats : Requested(ext) =>
                    fs[Target(ext)] = m_first.fs[Target(ext)]
    /\ m_pc = "failed_output" =>
          \E a \in Ancestors(m_args.output_dir) : a \in DOMAIN m_start.fs

C4_Witness ==
    /\ m_pc = "done"
    /\ m_run = 2
    /\ Len(segment_list) = 2
    /\ segment_list = m_first.segments
    /\ m_args.output_dir # CWD
    /\ Requested(SRT) /\ Requested(TXT)
    /\ m_start.fs[Target(SRT)] # <<>>

\* C6: after a successful run the files written are exactly those of the
\* requested formats among srt, json and txt (tokens separated by commas,
\* trimmed, in any case), each named <base name>.<format> in the output
\* directory; another token writes nothing and fails nothing, and a format
\* that was not requested is not written.
C6_ExactFiles ==
    m_pc = "done" =>
        /\ Targets \subseteq DOMAIN fs
        /\ DOMAIN fs \ DOMAIN m_start.fs \subseteq Targets
        /\ Changed \subseteq Targets
        /\ m_run = 1 => Changed = Targets

C6_Witness ==
    /\ m_pc = "done"
    /\ m_run = 1
    /\ m_args.formats = <<" ", "S", "R", "T", " ", ",", " ", "T", "x", "t">>
    /\ m_args.file = <<"a", ".", "b", ".", "w">>
    /\ DOMAIN m_start.fs # {}
    /\ Cardinality(Changed) = 2

\* C9: a failure of the model (loading it, in transcribe, or while the stream
\* is iterated, after any number of segments) ends the run with no file created
\* or changed and no directory created.
C9_NoPartialOutput ==
    m_pc = "failed_model" => (fs = m_start.fs /\ dirs = m_start.dirs)

C9_Witness ==
    /\ m_pc = "failed_model"
    /\ m_run = 1
    /\ segment_list # <<>>
    /\ m_stream # <<>>
    /\ m_args.output_dir \notin dirs
    /\ Requested(SRT)

(***************************************************************************)
(* The prompts of interactive_setup.                                       *)
(***************************************************************************)
Prompts == <<"file", "device", "model_size", "compute_type", "cpu_threads",
             "beam_size", "language", "output_dir", "formats", "returned">>

\* The place of a prompt in the order of the wizard; 0 for a run that ended.
Rank(pc) == IF \E i \in 1..Len(Prompts) : Prompts[i] = pc
            THEN CHOOSE i \in 1..Len(Prompts) : Prompts[i] = pc
            ELSE 0

Members(list) == { list[i] : i \in 1..Len(list) }

Blank(line) == \A i \in 1..Len(line) : IsSpace(line[i])

\* The line, trimmed, is a decimal integer: an optional minus sign and digits.
IsIntegerLine(line) ==
    LET t == strip(line)
    IN  \/ (t # <<>> /\ AllDigits(t))
        \/ (Len(t) >= 2 /\ t[1] = "-" /\ AllDigits(Tail(t)))

IntegerOf(line) ==
    LET t == strip(line)
    IN  IF t[1] = "-" THEN 0 - ParseDec(Tail(t)) ELSE ParseDec(t)

\* The path a line names: trimmed, without the quotes around it.
PathOf(line) == strip_chars(strip_chars(strip(line), {QUOTE}), {"'"})

MenuOf(prompt) ==
    IF prompt = "device" THEN [options |-> available_devices, default |-> default_device]
    ELSE IF prompt = "model_size" THEN [options |-> model_sizes, default |-> "medium"]
    ELSE [options |-> compute_types(i_args.device),
          default |-> default_compute(i_args.device)]

IsMenu(prompt) == prompt \in {"device", "model_size", "compute_type"}

\* The line is a valid answer to the prompt.
ValidAnswer(prompt, line) ==
    IF prompt = "file" THEN PathOf(line) \in DOMAIN fs
    ELSE IF IsMenu(prompt)
         THEN Blank(line) \/ (IsIntegerLine(line) /\ IntegerOf(line) >= 1
                              /\ IntegerOf(line) <= Len(MenuOf(prompt).options))
    ELSE IF prompt = "cpu_threads"
         THEN Blank(line) \/ (IsIntegerLine(line) /\ IntegerOf(line) >= 0)
    ELSE IF prompt = "beam_size"
         THEN Blank(line) \/ (IsIntegerLine(line) /\ IntegerOf(line) > 0)
    ELSE TRUE

\* The setting a valid answer gives (in the state the step leads to).
StoredAnswer(prompt, line) ==
    IF prompt = "file" THEN i_args'.file = PathOf(line)
    ELSE IF IsMenu(prompt)
         THEN i_args'[prompt] = IF Blank(line) THEN MenuOf(prompt).default
                                ELSE MenuOf(prompt).options[IntegerOf(line)]
    ELSE IF prompt = "cpu_threads"
         THEN i_args'.cpu_threads = IF Blank(line) THEN 0 ELSE IntegerOf(line)
    ELSE IF prompt = "beam_size"
         THEN i_args'.beam_size = IF Blank(line) THEN 5 ELSE IntegerOf(line)
    ELSE TRUE

\* The settings are valid once their prompts are passed.
C8_Settings ==
    /\ Rank(i_pc) > Rank("file") => i_args.file \in DOMAIN fs
    /\ Rank(i_pc) > Rank("device") => i_args.device \in Members(available_devices)
    /\ Rank(i_pc) > Rank("model_size") => i_args.model_size \in Members(model_sizes)
    /\ Rank(i_pc) > Rank("compute_type") =>
          i_args.compute_type \in Members(compute_types(i_args.device))
    /\ (Rank(i_pc) > Rank("cpu_threads") /\ i_args.device = "cpu") => i_args.cpu_threads >= 0
    /\ Rank(i_pc) > Rank("beam_size") => i_args.beam_size > 0

\* A prompt has read the line i_line': an invalid line changes no setting and
\* the same prompt asks again; a valid one stores its value and moves on.
C8_Answer ==
    (Rank(i_pc) > 0 /\ i_pc # "returned" /\ i_asked' = i_pc /\ i_pc' # "aborted") =>
        IF ValidAnswer(i_pc, i_line')
        THEN Rank(i_pc') > Rank(i_pc) /\ StoredAnswer(i_pc, i_line')
        ELSE i_pc' = i_pc /\ i_args' = i_args

\* C8: the prompts retry until valid.  interactive_setup returns only after an
\* existing regular file, a beam size > 0 (5 when blank) and, on cpu, a thread
\* count >= 0 (0 when blank) were entered; a rejected line leaves the settings
\* as they were and the same prompt asks again; a menu only returns one of its
\* options.
C8_RetryUntilValid == [](C8_Settings) /\ [][C8_Answer]_vars

C8_Witness ==
    /\ i_pc = "beam_size"
    /\ i_asked = "beam_size"
    /\ i_line = <<"0">>
    /\ i_args.device = "cpu"
    /\ i_args.cpu_threads = 0
    /\ i_args.beam_size = 0
    /\ i_args.file = IFile

====
